---- MODULE Spec2Model ----
(***************************************************************************)
(* Model of src/seir.py: the two explicit-Euler SEIR integrators           *)
(* base_seir_model and social_distancing_seir_model, and the module-level  *)
(* names they are called with.                                             *)
(*                                                                         *)
(* Numbers.  The program computes in Python floats.  The model computes in *)
(* exact rational arithmetic: a number is a pair <<n, d>> with d > 0 and   *)
(* gcd(|n|, d) = 1.  Every statement below is therefore a statement about  *)
(* the arithmetic the code writes down, not about binary64 rounding.       *)
(***************************************************************************)
EXTENDS Integers, Sequences, FiniteSets, TLC

VARIABLES
    init_vals,                  \* seir.py:106/127  the 4-tuple S_0, E_0, I_0, R_0
    params,                     \* seir.py:111/133  <<alpha, beta, gamma, rho>>
    t,                          \* seir.py:103/124  the time grid
    base,                       \* the frame of the call base_seir_model(...)
    sd,                         \* the frame of the call social_distancing_seir_model(...)
    results,                    \* seir.py:113
    results_social_distancing   \* seir.py:135

vars == <<init_vals, params, t, base, sd, results, results_social_distancing>>

\* Longest time grid explored.
MaxGridLen == 3

----------------------------------------------------------------------------
(* Exact rational arithmetic standing for the float operators of the code. *)

Abs(n) == IF n < 0 THEN -n ELSE n

RECURSIVE GCD(_, _)
GCD(a, b) == IF b = 0 THEN a ELSE GCD(b, a % b)

Norm(n, d) ==
    LET g == GCD(Abs(n), d)
    IN  IF n = 0 THEN <<0, 1>> ELSE <<n \div g, d \div g>>

Rat(n, d) == Norm(n, d)

Zero == <<0, 1>>
One  == <<1, 1>>

RAdd(x, y) ==
    LET g == GCD(x[2], y[2])
    IN  Norm(x[1] * (y[2] \div g) + y[1] * (x[2] \div g), (x[2] \div g) * y[2])

RNeg(x) == <<-x[1], x[2]>>

RSub(x, y) == RAdd(x, RNeg(y))

RMul(x, y) ==
    LET g1 == GCD(Abs(x[1]), y[2])
        g2 == GCD(Abs(y[1]), x[2])
    IN  IF x[1] = 0 \/ y[1] = 0 THEN Zero
        ELSE <<(x[1] \div g1) * (y[1] \div g2), (x[2] \div g2) * (y[2] \div g1)>>

RLeq(x, y) == RSub(y, x)[1] >= 0

RLt(x, y) == RSub(y, x)[1] > 0

----------------------------------------------------------------------------
(* Inputs. *)

\* Initial states explored: fractions that sum to 1, and some that do not.
InitVals ==
    {<<Rat(1, 1), Rat(0, 1), Rat(0, 1), Rat(0, 1)>>,
     <<Rat(1, 2), Rat(1, 2), Rat(0, 1), Rat(0, 1)>>,
     <<Rat(1, 2), Rat(0, 1), Rat(1, 2), Rat(0, 1)>>,
     <<Rat(1, 2), Rat(0, 1), Rat(0, 1), Rat(1, 2)>>,
     <<Rat(0, 1), Rat(1, 2), Rat(1, 2), Rat(0, 1)>>,
     <<Rat(1, 1), Rat(0, 1), Rat(1, 2), Rat(0, 1)>>,
     <<Rat(1, 2), Rat(1, 2), Rat(1, 2), Rat(0, 1)>>,
     <<Rat(1, 1), Rat(1, 2), Rat(1, 2), Rat(1, 2)>>}

\* Values the rates are drawn from (no range is enforced by the code).
AlphaVals == {Rat(1, 2), Rat(1, 1)}
BetaVals  == {Rat(-1, 1), Rat(1, 1), Rat(2, 1)}
GammaVals == {Rat(1, 2)}
RhoVals   == {Rat(0, 1), Rat(1, 2), Rat(1, 1)}

\* Instants a grid is made of.
TimeVals == {Rat(0, 1), Rat(1, 1), Rat(3, 1)}

Grids == UNION {[1..n -> TimeVals] : n \in 0..MaxGridLen}

\* The value of a name that is not bound yet.
None == <<>>

\* The frame of a function that has not been called.
NoFrame ==
    [pc |-> "idle", S |-> <<>>, E |-> <<>>, I |-> <<>>, R |-> <<>>,
     alpha |-> Zero, beta |-> Zero, gamma |-> Zero, rho |-> Zero,
     dt |-> Zero, it |-> <<>>, exc |-> "none"]

Last(s) == s[Len(s)]

----------------------------------------------------------------------------
(* base_seir_model *)

\* Mutant: the susceptibles gain what they should lose.
base_next_S_plus(S, E, I, R, alpha, beta, gamma, dt) ==
    RAdd(S, RMul(RMul(RMul(beta, S), I), dt))

base_next_S(S, E, I, R, alpha, beta, gamma, dt) ==
    RSub(S, RMul(RMul(RMul(beta, S), I), dt))

\* Mutant: formula 2 as the module docstring (line 15) writes it, with the
\* transmission term subtracted.
base_next_E_docstring(S, E, I, R, alpha, beta, gamma, dt) ==
    RAdd(E, RMul(RSub(RNeg(RMul(RMul(beta, S), I)), RMul(alpha, E)), dt))

base_next_E(S, E, I, R, alpha, beta, gamma, dt) ==
    RAdd(E, RMul(RSub(RMul(RMul(beta, S), I), RMul(alpha, E)), dt))

base_next_I(S, E, I, R, alpha, beta, gamma, dt) ==
    RAdd(I, RMul(RSub(RMul(alpha, E), RMul(gamma, I)), dt))

base_next_R(S, E, I, R, alpha, beta, gamma, dt) ==
    RAdd(R, RMul(RMul(gamma, I), dt))

\* np.stack([S, E, I, R]): a 4 x n array, one row per list.
Stack(S, E, I, R) == <<S, E, I, R>>

\* Mutant: the transposition is forgotten.
Transpose_missing(a) == a

\* .T of a 2-d array: element [i][j] of the result is element [j][i].
Transpose(a) ==
    IF a = <<>> THEN <<>>
    ELSE [i \in 1..Len(a[1]) |-> [j \in 1..Len(a) |-> a[j][i]]]

\* for _ in t[1:]: the elements the loop runs over.
LoopItems(grid) == SubSeq(grid, 2, Len(grid))

\* Lines 39-45: unpack the arguments, start the lists, compute dt.
BaseCall ==
    /\ base.pc = "idle"
    /\ IF Len(t) < 2
       THEN base' = [base EXCEPT !.pc = "raised", !.exc = "IndexError",
                                 !.S = <<init_vals[1]>>, !.E = <<init_vals[2]>>,
                                 !.I = <<init_vals[3]>>, !.R = <<init_vals[4]>>,
                                 !.alpha = params[1], !.beta = params[2],
                                 !.gamma = params[3]]
       ELSE base' = [base EXCEPT !.pc = "loop",
                                 !.S = <<init_vals[1]>>, !.E = <<init_vals[2]>>,
                                 !.I = <<init_vals[3]>>, !.R = <<init_vals[4]>>,
                                 !.alpha = params[1], !.beta = params[2],
                                 !.gamma = params[3],
                                 !.dt = RSub(t[2], t[1]),
                                 !.it = LoopItems(t)]
    /\ UNCHANGED <<init_vals, params, t, sd, results, results_social_distancing>>

\* Lines 48-58: one iteration of the loop.
BaseIter ==
    /\ base.pc = "loop"
    /\ base.it # <<>>
    /\ LET S == Last(base.S)
           E == Last(base.E)
           I == Last(base.I)
           R == Last(base.R)
           next_S == base_next_S(S, E, I, R, base.alpha, base.beta, base.gamma, base.dt)
           next_E == base_next_E(S, E, I, R, base.alpha, base.beta, base.gamma, base.dt)
           next_I == base_next_I(S, E, I, R, base.alpha, base.beta, base.gamma, base.dt)
           next_R == base_next_R(S, E, I, R, base.alpha, base.beta, base.gamma, base.dt)
       IN  base' = [base EXCEPT !.S = Append(@, next_S), !.E = Append(@, next_E),
                                !.I = Append(@, next_I), !.R = Append(@, next_R),
                                !.it = Tail(@)]
    /\ UNCHANGED <<init_vals, params, t, sd, results, results_social_distancing>>

\* Line 60 and line 113: the loop is exhausted, the array is returned and bound.
BaseReturn ==
    /\ base.pc = "loop"
    /\ base.it = <<>>
    /\ base' = [base EXCEPT !.pc = "done"]
    /\ results' = Transpose(Stack(base.S, base.E, base.I, base.R))
    /\ UNCHANGED <<init_vals, params, t, sd, results_social_distancing>>

----------------------------------------------------------------------------
(* social_distancing_seir_model *)

\* Mutant: line 50 copied without rho.
sd_next_S_norho(S, E, I, R, alpha, beta, gamma, rho, dt) ==
    RSub(S, RMul(RMul(RMul(beta, S), I), dt))

sd_next_S(S, E, I, R, alpha, beta, gamma, rho, dt) ==
    RSub(S, RMul(RMul(RMul(RMul(rho, beta), S), I), dt))

\* Mutant: formula 2 as the module docstring (line 15) writes it.
sd_next_E_docstring(S, E, I, R, alpha, beta, gamma, rho, dt) ==
    RAdd(E, RMul(RSub(RNeg(RMul(RMul(RMul(rho, beta), S), I)), RMul(alpha, E)), dt))

sd_next_E(S, E, I, R, alpha, beta, gamma, rho, dt) ==
    RAdd(E, RMul(RSub(RMul(RMul(RMul(rho, beta), S), I), RMul(alpha, E)), dt))

\* Mutant: the infected are computed from the exposed of this step, not of
\* the previous row.
sd_next_I_updated(S, E, I, R, alpha, beta, gamma, rho, dt) ==
    LET E2 == RAdd(E, RMul(RSub(RMul(RMul(RMul(rho, beta), S), I), RMul(alpha, E)), dt))
    IN  RAdd(I, RMul(RSub(RMul(alpha, E2), RMul(gamma, I)), dt))

\* Mutant: the recovery term is added to the infected instead of removed.
sd_next_I_plus(S, E, I, R, alpha, beta, gamma, rho, dt) ==
    RAdd(I, RMul(RAdd(RMul(alpha, E), RMul(gamma, I)), dt))

sd_next_I(S, E, I, R, alpha, beta, gamma, rho, dt) ==
    RAdd(I, RMul(RSub(RMul(alpha, E), RMul(gamma, I)), dt))

sd_next_R(S, E, I, R, alpha, beta, gamma, rho, dt) ==
    RAdd(R, RMul(RMul(gamma, I), dt))

\* Lines 75-81: unpack the arguments, start the lists, compute dt.
SdCall ==
    /\ sd.pc = "idle"
    /\ IF Len(t) < 2
       THEN sd' = [sd EXCEPT !.pc = "raised", !.exc = "IndexError",
                             !.S = <<init_vals[1]>>, !.E = <<init_vals[2]>>,
                             !.I = <<init_vals[3]>>, !.R = <<init_vals[4]>>,
                             !.alpha = params[1], !.beta = params[2],
                             !.gamma = params[3], !.rho = params[4]]
       ELSE sd' = [sd EXCEPT !.pc = "loop",
                             !.S = <<init_vals[1]>>, !.E = <<init_vals[2]>>,
                             !.I = <<init_vals[3]>>, !.R = <<init_vals[4]>>,
                             !.alpha = params[1], !.beta = params[2],
                             !.gamma = params[3], !.rho = params[4],
                             !.dt = RSub(t[2], t[1]),
                             !.it = LoopItems(t)]
    /\ UNCHANGED <<init_vals, params, t, base, results, results_social_distancing>>

\* Lines 83-91: one iteration of the loop.
SdIter ==
    /\ sd.pc = "loop"
    /\ sd.it # <<>>
    /\ LET S == Last(sd.S)
           E == Last(sd.E)
           I == Last(sd.I)
           R == Last(sd.R)
           next_S == sd_next_S(S, E, I, R, sd.alpha, sd.beta, sd.gamma, sd.rho, sd.dt)
           next_E == sd_next_E(S, E, I, R, sd.alpha, sd.beta, sd.gamma, sd.rho, sd.dt)
           next_I == sd_next_I(S, E, I, R, sd.alpha, sd.beta, sd.gamma, sd.rho, sd.dt)
           next_R == sd_next_R(S, E, I, R, sd.alpha, sd.beta, sd.gamma, sd.rho, sd.dt)
       IN  sd' = [sd EXCEPT !.S = Append(@, next_S), !.E = Append(@, next_E),
                            !.I = Append(@, next_I), !.R = Append(@, next_R),
                            !.it = Tail(@)]
    /\ UNCHANGED <<init_vals, params, t, base, results, results_social_distancing>>

\* Mutant: line 135 binds the name of line 113.
SdReturn_rebinds_results ==
    /\ sd.pc = "loop"
    /\ sd.it = <<>>
    /\ sd' = [sd EXCEPT !.pc = "done"]
    /\ results' = Transpose(Stack(sd.S, sd.E, sd.I, sd.R))
    /\ results_social_distancing' = results'
    /\ UNCHANGED <<init_vals, params, t, base>>

\* Line 92 and line 135: the loop is exhausted, the array is returned and bound.
SdReturn ==
    /\ sd.pc = "loop"
    /\ sd.it = <<>>
    /\ sd' = [sd EXCEPT !.pc = "done"]
    /\ results_social_distancing' = Transpose(Stack(sd.S, sd.E, sd.I, sd.R))
    /\ UNCHANGED <<init_vals, params, t, base, results>>

----------------------------------------------------------------------------

Init ==
    /\ init_vals \in InitVals
    /\ params \in AlphaVals \X BetaVals \X GammaVals \X RhoVals
    /\ t \in Grids
    /\ base = NoFrame
    /\ sd = NoFrame
    /\ results = None
    /\ results_social_distancing = None

Next ==
    \/ BaseCall
    \/ BaseIter
    \/ BaseReturn
    \/ SdCall
    \/ SdIter
    \/ SdReturn

Spec == Init /\ [][Next]_vars

----------------------------------------------------------------------------
(* Vocabulary of the properties. *)

Sum4(row) == RAdd(RAdd(RAdd(row[1], row[2]), row[3]), row[4])

NonNeg(x) == RLeq(Zero, x)

InUnit(x) == RLeq(Zero, x) /\ RLeq(x, One)

\* dt as the grid gives it: the spacing of the first two points.
GridDt == RSub(t[2], t[1])

StrictlyIncreasing(grid) == \A i \in 1..(Len(grid) - 1) : RLt(grid[i], grid[i + 1])

\* The recurrence of one Euler step, written from the previous row x only,
\* with transmission term T.
EulerRow(x, T, alpha, gamma, dt) ==
    <<RSub(x[1], RMul(T, dt)),
      RAdd(x[2], RMul(RSub(T, RMul(alpha, x[2])), dt)),
      RAdd(x[3], RMul(RSub(RMul(alpha, x[2]), RMul(gamma, x[3])), dt)),
      RAdd(x[4], RMul(RMul(gamma, x[3]), dt))>>

BaseT(x) == RMul(params[2], RMul(x[1], x[3]))

SdT(x) == RMul(params[4], RMul(params[2], RMul(x[1], x[3])))

\* A trajectory in which something happened: it has at least three rows and
\* the third differs from the first.
Moved(traj) == Len(traj) >= 3 /\ traj[3] # traj[1] /\ traj[3] # traj[2]

BaseDone == base.pc = "done"
SdDone == sd.pc = "done"

----------------------------------------------------------------------------
\* C1: in both model functions every row of the returned trajectory has the
\* same sum S+E+I+R as row 0 (the four increments of a step sum to zero).
C1_Conservation ==
    /\ BaseDone => \A i \in 1..Len(results) : Sum4(results[i]) = Sum4(results[1])
    /\ SdDone => \A i \in 1..Len(results_social_distancing) :
                    Sum4(results_social_distancing[i]) = Sum4(results_social_distancing[1])

C1_Witness ==
    /\ BaseDone /\ SdDone
    /\ Moved(results) /\ Moved(results_social_distancing)
    /\ results # results_social_distancing

C3_Shape ==
    /\ BaseDone =>
          /\ Len(results) = Len(t)
          /\ \A i \in 1..Len(results) :
                results[i] = <<base.S[i], base.E[i], base.I[i], base.R[i]>>
    /\ SdDone =>
          /\ Len(results_social_distancing) = Len(t)
          /\ \A i \in 1..Len(results_social_distancing) :
                results_social_distancing[i] = <<sd.S[i], sd.E[i], sd.I[i], sd.R[i]>>

\* Both runs returned three rows whose four fields are pairwise different in
\* some row, so a permutation of the fields would show.
C3_Witness ==
    /\ BaseDone /\ SdDone
    /\ Len(t) = 3
    /\ \E i \in 1..Len(results) : Cardinality({results[i][j] : j \in 1..4}) = 4
    /\ \E i \in 1..Len(results_social_distancing) :
          Cardinality({results_social_distancing[i][j] : j \in 1..4}) = 4

\* C4: with rho = 1 the distancing model returns, row by row, the trajectory
\* the base model returns for the same alpha, beta, gamma, init_vals and t.
C4_RhoOneIsBase ==
    (params[4] = One /\ BaseDone /\ SdDone) => results_social_distancing = results

C4_Witness ==
    /\ params[4] = One
    /\ BaseDone /\ SdDone
    /\ Moved(results)
    /\ results[2][1] # results[1][1]

\* C5: with rho = 0 the distancing model keeps S at S[0] in every row and
\* E, I, R follow the recurrence with transmission term 0.
C5_RhoZero ==
    (params[4] = Zero /\ SdDone) =>
        /\ \A i \in 1..Len(results_social_distancing) :
              results_social_distancing[i][1] = init_vals[1]
        /\ \A i \in 1..(Len(results_social_distancing) - 1) :
              LET x == results_social_distancing[i]
                  y == results_social_distancing[i + 1]
              IN  /\ y[2] = RSub(x[2], RMul(RMul(params[1], x[2]), GridDt))
                  /\ y[3] = RAdd(x[3], RMul(RSub(RMul(params[1], x[2]),
                                                 RMul(params[3], x[3])), GridDt))
                  /\ y[4] = RAdd(x[4], RMul(RMul(params[3], x[3]), GridDt))

\* S and I both positive at the start (so a non-zero rho would move S), and
\* E, I, R moved.
C5_Witness ==
    /\ params[4] = Zero
    /\ SdDone
    /\ init_vals[1] # Zero /\ init_vals[3] # Zero
    /\ params[2] # Zero
    /\ GridDt # Zero
    /\ Moved(results_social_distancing)

\* C6: on a strictly increasing grid, when rho, beta and every S[i] and I[i]
\* of the trajectory are >= 0, S never increases from one row to the next.
C6_SNonIncreasing ==
    StrictlyIncreasing(t) =>
        /\ (/\ BaseDone
            /\ NonNeg(params[2])
            /\ \A i \in 1..Len(results) : NonNeg(results[i][1]) /\ NonNeg(results[i][3]))
           => \A i \in 1..(Len(results) - 1) : RLeq(results[i + 1][1], results[i][1])
        /\ (/\ SdDone
            /\ NonNeg(params[4]) /\ NonNeg(params[2])
            /\ \A i \in 1..Len(results_social_distancing) :
                  /\ NonNeg(results_social_distancing[i][1])
                  /\ NonNeg(results_social_distancing[i][3]))
           => \A i \in 1..(Len(results_social_distancing) - 1) :
                 RLeq(results_social_distancing[i + 1][1], results_social_distancing[i][1])

\* Three strictly increasing instants, nothing negative, and S went down at
\* both steps in both trajectories.
C6_Witness ==
    /\ StrictlyIncreasing(t) /\ Len(t) = 3
    /\ BaseDone /\ SdDone
    /\ NonNeg(params[2]) /\ NonNeg(params[4])
    /\ \A i \in 1..3 : /\ NonNeg(results[i][1]) /\ NonNeg(results[i][3])
                       /\ NonNeg(results_social_distancing[i][1])
                       /\ NonNeg(results_social_distancing[i][3])
    /\ \A i \in 1..2 : /\ RLt(results[i + 1][1], results[i][1])
                       /\ RLt(results_social_distancing[i + 1][1],
                              results_social_distancing[i][1])

\* C7: a run on a grid whose end time is <= its start time, or whose
\* dt = t[1]-t[0] is <= 0, ends rejected with InvalidTimeGrid and returns no
\* trajectory, full or truncated.
InvalidGrid ==
    /\ Len(t) >= 2
    /\ \/ RLeq(t[Len(t)], t[1])
       \/ RLeq(GridDt, Zero)

C7_InvalidGridRejected ==
    InvalidGrid =>
        /\ base.pc \notin {"idle", "loop"} =>
              (base.pc = "raised" /\ base.exc = "InvalidTimeGrid" /\ results = None)
        /\ sd.pc \notin {"idle", "loop"} =>
              (sd.pc = "raised" /\ sd.exc = "InvalidTimeGrid"
               /\ results_social_distancing = None)

\* C8: on a grid of exactly one point each function does no stepping and
\* returns the one-row trajectory <<init_vals>>; dt is never needed.
C8_OnePointGrid ==
    Len(t) = 1 =>
        /\ base.pc # "raised" /\ sd.pc # "raised"
        /\ BaseDone => results = <<init_vals>>
        /\ SdDone => results_social_distancing = <<init_vals>>

\* The trajectory a run of base_seir_model returns when nothing else runs.
RECURSIVE BaseRows(_, _, _, _)
BaseRows(rows, p, dt, n) ==
    IF n = 0 THEN rows
    ELSE LET x == Last(rows)
         IN  BaseRows(Append(rows,
                 <<base_next_S(x[1], x[2], x[3], x[4], p[1], p[2], p[3], dt),
                   base_next_E(x[1], x[2], x[3], x[4], p[1], p[2], p[3], dt),
                   base_next_I(x[1], x[2], x[3], x[4], p[1], p[2], p[3], dt),
                   base_next_R(x[1], x[2], x[3], x[4], p[1], p[2], p[3], dt)>>),
                 p, dt, n - 1)

\* The trajectory a run of social_distancing_seir_model returns when nothing
\* else runs.
RECURSIVE SdRows(_, _, _, _)
SdRows(rows, p, dt, n) ==
    IF n = 0 THEN rows
    ELSE LET x == Last(rows)
         IN  SdRows(Append(rows,
                 <<sd_next_S(x[1], x[2], x[3], x[4], p[1], p[2], p[3], p[4], dt),
                   sd_next_E(x[1], x[2], x[3], x[4], p[1], p[2], p[3], p[4], dt),
                   sd_next_I(x[1], x[2], x[3], x[4], p[1], p[2], p[3], p[4], dt),
                   sd_next_R(x[1], x[2], x[3], x[4], p[1], p[2], p[3], p[4], dt)>>),
                 p, dt, n - 1)

\* C9: a step of either run leaves init_vals, params and t unchanged, leaves
\* a trajectory that was already returned unchanged, and writes nothing of the
\* other run; whatever the interleaving, each run returns the trajectory it
\* returns when run alone.
C9_Independent ==
    [][/\ init_vals' = init_vals /\ params' = params /\ t' = t
       /\ (results # None => results' = results)
       /\ (results_social_distancing # None =>
              results_social_distancing' = results_social_distancing)
       /\ (base' # base => (sd' = sd /\ results_social_distancing' = results_social_distancing))
       /\ (sd' # sd => (base' = base /\ results' = results))
       /\ (base'.pc = "done" =>
              results' = BaseRows(<<init_vals>>, params, GridDt, Len(t) - 1))
       /\ (sd'.pc = "done" =>
              results_social_distancing' = SdRows(<<init_vals>>, params, GridDt, Len(t) - 1))
      ]_vars

\* The distancing run has returned while the base run is in the middle of its
\* loop, one step taken and one to go.
C9_Witness ==
    /\ base.pc = "loop" /\ Len(base.S) = 2 /\ base.it # <<>>
    /\ SdDone
    /\ Moved(results_social_distancing)
    /\ base.S[2] # results_social_distancing[2][1]

\* The step bounds of C10, for transmission factor k (beta, or rho*beta).
StepBounds(k) ==
    /\ Len(t) >= 2
    /\ RLt(Zero, GridDt)
    /\ \A i \in 1..4 : NonNeg(init_vals[i])
    /\ Sum4(init_vals) = One
    /\ InUnit(RMul(params[1], GridDt))
    /\ InUnit(RMul(params[3], GridDt))
    /\ InUnit(RMul(k, GridDt))

AllInUnit(traj) == \A i \in 1..Len(traj) : \A j \in 1..4 : InUnit(traj[i][j])

\* C10: when the initial fractions are >= 0 and sum to 1, dt > 0 and
\* alpha*dt, gamma*dt and rho*beta*dt (beta*dt for the base model) lie in
\* [0, 1], every value of every row of the trajectory lies in [0, 1].
C10_StaysInUnit ==
    /\ (BaseDone /\ StepBounds(params[2])) => AllInUnit(results)
    /\ (SdDone /\ StepBounds(RMul(params[4], params[2]))) =>
          AllInUnit(results_social_distancing)

\* Both runs within the bounds, with a row whose four values are all strictly
\* between 0 and 1.
C10_Witness ==
    /\ BaseDone /\ SdDone
    /\ StepBounds(params[2]) /\ StepBounds(RMul(params[4], params[2]))
    /\ Moved(results) /\ Moved(results_social_distancing)
    /\ \E i \in 1..Len(results) :
          \A j \in 1..4 : RLt(Zero, results[i][j]) /\ RLt(results[i][j], One)
    /\ \E i \in 1..Len(results_social_distancing) :
          \A j \in 1..4 : /\ RLt(Zero, results_social_distancing[i][j])
                          /\ RLt(results_social_distancing[i][j], One)

\* The second half of C10: from fractions >= 0 that sum to 1 and dt > 0, but
\* with a step bound exceeded, a row with a negative value is returned.
C10_NegativeOutsideBounds ==
    /\ SdDone
    /\ Len(t) >= 2 /\ RLt(Zero, GridDt)
    /\ \A i \in 1..4 : NonNeg(init_vals[i])
    /\ Sum4(init_vals) = One
    /\ NonNeg(params[2])
    /\ ~StepBounds(RMul(params[4], params[2]))
    /\ \E i \in 1..Len(results_social_distancing) :
          \E j \in 1..4 : ~NonNeg(results_social_distancing[i][j])

====
